---- MODULE Spec2Model ----
(***************************************************************************)
(* Scan-classify orchestration of the NIRScan Nano handheld:               *)
(*   app.py       TFTApp (UI loop, button poller, scan worker threads)     *)
(*   classify.py  main (baseline, scan, staleness check, validation,       *)
(*                inference, arg-max classification)                       *)
(*                                                                         *)
(* Conventions                                                             *)
(*   - Python None for a button is the string "NONE"; for the return value *)
(*     of classify.main it is the empty tuple; for an mtime it is NoMtime. *)
(*   - Millivolts are counted in ADC steps of 0.125 mV (app.py:65), so a   *)
(*     threshold of t mV is t * LSB_PER_MV.                                *)
(*   - Confidences are counted in hundredths (0.8 is 80).                  *)
(*   - A file stem is a tuple of one-character strings.                    *)
(***************************************************************************)
EXTENDS Integers, Sequences, FiniteSets, Bags, TLC

VARIABLES
    running,          \* TFTApp.running
    current_screen,   \* TFTApp.current_screen
    focus_index,      \* TFTApp.focus_index
    scan_status,      \* TFTApp.scan_status
    result_text,      \* TFTApp.result_text
    conf_text,        \* TFTApp.conf_text
    button_queue,     \* TFTApp.button_queue
    mv,               \* poll_buttons: last sample read
    last_press,       \* poll_buttons: last_press
    ui_pc,            \* position of TFTApp.run in its loop
    workers,          \* bag of live worker threads of start_scan
    classify_mod,     \* app.py:19-23: TRUE iff "import classify" succeeded
    env,              \* environment met by a stand-alone run of classify.main
    m,                \* outcome of that run
    now,              \* the clock time.time() reads, in ticks
    tw,               \* one worker thread followed against the clock
    adj               \* a stand-alone length adjustment of run_model

vars == <<running, current_screen, focus_index, scan_status, result_text,
          conf_text, button_queue, mv, last_press, ui_pc, workers,
          classify_mod, env, m, now, tw, adj>>

app_vars == <<running, current_screen, focus_index, scan_status, result_text,
              conf_text, button_queue, mv, last_press, ui_pc, workers,
              classify_mod>>

-----------------------------------------------------------------------------
(* Bounds *)

MaxWorkers == 2      \* worker threads alive at the same time
MaxQueue   == 1      \* queued button events in the application
MaxPolled  == 2      \* queued button events when the poller runs alone
MaxMtime   == 2      \* modification times 1..MaxMtime
MaxConf    == 20     \* model outputs 0, 5, .., 5 * MaxConf hundredths
Near       == 1      \* ADC steps sampled on each side of every threshold
MaxTicks   == 8      \* clock ticks the timed worker is followed for
MaxLen     == 3      \* length of the spectra given to the length adjustment

-----------------------------------------------------------------------------
(* app.py: hardware functions *)

LSB_PER_MV == 8
SENTINEL_MV == 9999 * LSB_PER_MV
RAW_MIN == -32768
RAW_MAX == 32767

\* Every value read_ads1115 can return: a signed 16-bit conversion, or the
\* sentinel 9999 when the bus is absent or the transfer raises.
read_ads1115 == (RAW_MIN..RAW_MAX) \cup {SENTINEL_MV}

\* read_ads1115, lines 58-67, for one call: bus is "none" when BUS is None,
\* "raises" when a transfer raises, "ok" otherwise; word is the 16-bit
\* conversion register (data[0] << 8) | data[1]
read_ads1115_call(bus, word) ==
    IF bus = "none" THEN SENTINEL_MV
    ELSE IF bus = "raises" THEN SENTINEL_MV
    ELSE IF word > RAW_MAX THEN word - 65536 ELSE word

\* detect_button with no upper end to the RIGHT range
detect_button_open(x) ==
    IF x < 20 * LSB_PER_MV THEN "ENTER"
    ELSE IF 70 * LSB_PER_MV <= x /\ x <= 160 * LSB_PER_MV THEN "UP"
    ELSE IF 200 * LSB_PER_MV <= x /\ x <= 350 * LSB_PER_MV THEN "DOWN"
    ELSE IF 450 * LSB_PER_MV <= x THEN "RIGHT"
    ELSE "NONE"

\* detect_button with the ENTER range closed at 20 mV
detect_button_le(x) ==
    IF x <= 20 * LSB_PER_MV THEN "ENTER"
    ELSE IF 70 * LSB_PER_MV <= x /\ x <= 160 * LSB_PER_MV THEN "UP"
    ELSE IF 200 * LSB_PER_MV <= x /\ x <= 350 * LSB_PER_MV THEN "DOWN"
    ELSE IF 450 * LSB_PER_MV <= x /\ x <= 700 * LSB_PER_MV THEN "RIGHT"
    ELSE "NONE"

\* detect_button, lines 69-75
detect_button(x) ==
    IF x < 20 * LSB_PER_MV THEN "ENTER"
    ELSE IF 70 * LSB_PER_MV <= x /\ x <= 160 * LSB_PER_MV THEN "UP"
    ELSE IF 200 * LSB_PER_MV <= x /\ x <= 350 * LSB_PER_MV THEN "DOWN"
    ELSE IF 450 * LSB_PER_MV <= x /\ x <= 700 * LSB_PER_MV THEN "RIGHT"
    ELSE "NONE"

Buttons == {"ENTER", "UP", "DOWN", "RIGHT"}

-----------------------------------------------------------------------------
(* classify.py *)

CLASS_NAMES == <<"MSG", "Salt", "Sugar">>
UNDETECTED_LABEL == "Undetected"
CONF_THRESHOLD == 80
MIN_POINTS == 228
NaN == -32768
NoMtime == -1
NoFile == [stem |-> <<>>, mtime |-> NoMtime]
NoneRet == <<>>

Digits == {"0", "1", "2", "3", "4", "5", "6", "7", "8", "9"}

\* str.isdigit
isdigit(s) == Len(s) > 0 /\ \A i \in 1..Len(s) : s[i] \in Digits

\* Indices (in glob order) of the digit-only files of a directory listing.
candidates(dir) == {i \in 1..Len(dir) : isdigit(dir[i].stem)}

\* find_latest_csv_without_prefix: dir is the listing of SCANS_DIR in glob
\* order (the empty listing when the directory is absent). max() keeps the
\* first of several files with the same newest mtime.
find_latest_csv_without_prefix(dir) ==
    LET c == candidates(dir)
    IN  IF c = {} THEN NoFile
        ELSE dir[CHOOSE i \in c :
                   /\ \A j \in c : dir[j].mtime <= dir[i].mtime
                   /\ \A j \in c : j < i => dir[j].mtime < dir[i].mtime]

\* np.isnan(a).any()
has_nan(a) == \E i \in 1..Len(a) : a[i] = NaN

\* np.diff
diff(a) == [i \in 1..(IF Len(a) = 0 THEN 0 ELSE Len(a) - 1) |-> a[i + 1] - a[i]]

\* np.argmax, 0-based: the first index holding the maximum
argmax(p) ==
    (CHOOSE i \in 1..Len(p) :
        /\ \A j \in 1..Len(p) : p[j] <= p[i]
        /\ \A j \in 1..Len(p) : j < i => p[j] < p[i]) - 1

\* classify with the threshold exclusive on the detected side
classify_le(output) ==
    LET idx == argmax(output)
        conf == output[idx + 1]
    IN  IF conf <= CONF_THRESHOLD
        THEN <<UNDETECTED_LABEL, conf>>
        ELSE <<CLASS_NAMES[idx + 1], conf>>

\* classify: (label, conf); the third component probs is the argument itself
classify(output) ==
    LET idx == argmax(output)
        conf == output[idx + 1]
    IN  IF conf < CONF_THRESHOLD
        THEN <<UNDETECTED_LABEL, conf>>
        ELSE <<CLASS_NAMES[idx + 1], conf>>

\* adjust padding in front of the spectrum instead of behind it
adjust_prepend(x, expected_len) ==
    IF Len(x) # expected_len
    THEN IF Len(x) < expected_len
         THEN LET pad_value == IF Len(x) > 0 THEN x[Len(x)] ELSE 0
              IN  [i \in 1..(expected_len - Len(x)) |-> pad_value] \o x
         ELSE SubSeq(x, 1, expected_len)
    ELSE x

\* run_model, lines 93-103: pad with the last value, or truncate, to the
\* length the model expects
adjust(x, expected_len) ==
    IF Len(x) # expected_len
    THEN IF Len(x) < expected_len
         THEN LET pad_value == IF Len(x) > 0 THEN x[Len(x)] ELSE 0
              IN  x \o [i \in 1..(expected_len - Len(x)) |-> pad_value]
         ELSE SubSeq(x, 1, expected_len)
    ELSE x

ERR_POINTS == "Not enough valid absorbance points to compute differences. Please scan again!"
EXC_LOAD   == "Could not open model.tflite"
EXC_STAT   == "No such file or directory"
EXC_UNPACK == "cannot unpack non-iterable NoneType object"

\* What one call of main did: the line of the return (or raise) that ended it,
\* the exception that escaped it ("" for none), its return value, and what it
\* touched on the way.
MainResult(line, exc, ret, baseline, used, invoked) ==
    [line |-> line, exc |-> exc, ret |-> ret, baseline |-> baseline,
     used |-> used, invoked |-> invoked]

\* is_stale letting an artifact as old as the baseline through
is_stale_lt(mtime, last_processed_mtime) ==
    last_processed_mtime # NoMtime /\ mtime < last_processed_mtime

\* line 172: the newest file after the scan is not newer than the baseline
is_stale(mtime, last_processed_mtime) ==
    last_processed_mtime # NoMtime /\ mtime <= last_processed_mtime

\* is_invalid without the NaN test
is_invalid_short_only(absorbance_vals) ==
    Len(absorbance_vals) < MIN_POINTS

\* line 184: the absorbance column cannot be used
is_invalid(absorbance_vals) ==
    has_nan(absorbance_vals) \/ Len(absorbance_vals) < MIN_POINTS

\* main: e is the environment the call meets (model file, scanner script and
\* its exit status, SCANS_DIR before and after the scan, whether stat and the
\* CSV read succeed, the absorbance column, what run_model does and returns).
main(e) ==
    IF ~e.load_ok
    THEN MainResult(151, EXC_LOAD, NoneRet, NoMtime, NoFile, FALSE)
    ELSE
    LET pre_latest == find_latest_csv_without_prefix(e.pre)
        last_processed_mtime ==
            IF pre_latest # NoFile THEN pre_latest.mtime ELSE NoMtime
        latest == find_latest_csv_without_prefix(e.post)
        absorbance_vals == e.absorbance
    IN  IF ~e.script_exists \/ e.returncode # 0
        THEN MainResult(163, "", NoneRet, last_processed_mtime, NoFile, FALSE)
        ELSE IF latest = NoFile
        THEN MainResult(169, "", NoneRet, last_processed_mtime, NoFile, FALSE)
        ELSE IF ~e.stat_ok
        THEN MainResult(171, EXC_STAT, NoneRet, last_processed_mtime, NoFile, FALSE)
        ELSE IF is_stale(latest.mtime, last_processed_mtime)
        THEN MainResult(175, "", NoneRet, last_processed_mtime, NoFile, FALSE)
        ELSE IF ~e.read_ok
        THEN MainResult(202, "", NoneRet, last_processed_mtime, latest, FALSE)
        ELSE IF is_invalid(absorbance_vals)
        THEN MainResult(186, "", <<"", 0, ERR_POINTS>>, last_processed_mtime, latest, FALSE)
        ELSE IF e.run_fail = "shape"
        THEN MainResult(202, "", NoneRet, last_processed_mtime, latest, FALSE)
        ELSE IF e.run_fail = "invoke"
        THEN MainResult(202, "", NoneRet, last_processed_mtime, latest, TRUE)
        ELSE LET r == classify(e.output)
             IN  MainResult(200, "", <<r[1], r[2], "">>, last_processed_mtime, latest, TRUE)

Env(load_ok, pre, script_exists, returncode, post, stat_ok, read_ok, absorbance, run_fail, output) ==
    [load_ok |-> load_ok, pre |-> pre, script_exists |-> script_exists,
     returncode |-> returncode, post |-> post, stat_ok |-> stat_ok,
     read_ok |-> read_ok, absorbance |-> absorbance, run_fail |-> run_fail,
     output |-> output]

-----------------------------------------------------------------------------
(* Environments *)

File(stem, mtime) == [stem |-> stem, mtime |-> mtime]

\* an absorbance column of n points, NaN at position nan_at (0: nowhere)
Column(n, nan_at) == [i \in 1..n |-> IF i = nan_at THEN NaN ELSE i % 3]

GoodDir == <<File(<<"1">>, 1)>>
GoodEnv == Env(TRUE, <<>>, TRUE, 0, GoodDir, TRUE, TRUE,
               Column(MIN_POINTS, 0), "none", <<0, 95, 5>>)

\* one environment for every way out of main, as met by the running
\* application
EnvsApp ==
    { GoodEnv,
      [GoodEnv EXCEPT !.output = <<30, 30, 30>>],
      [GoodEnv EXCEPT !.returncode = 1],
      [GoodEnv EXCEPT !.post = <<>>],
      [GoodEnv EXCEPT !.post = <<File(<<"s", "-", "1">>, 2)>>],
      [GoodEnv EXCEPT !.pre = GoodDir],
      [GoodEnv EXCEPT !.read_ok = FALSE],
      [GoodEnv EXCEPT !.absorbance = Column(0, 0)],
      [GoodEnv EXCEPT !.absorbance = Column(MIN_POINTS - 1, 0)],
      [GoodEnv EXCEPT !.absorbance = Column(MIN_POINTS, 1)],
      [GoodEnv EXCEPT !.absorbance = Column(MIN_POINTS + 1, MIN_POINTS + 1)],
      [GoodEnv EXCEPT !.absorbance = Column(MIN_POINTS + 1, 0)],
      [GoodEnv EXCEPT !.run_fail = "shape"],
      [GoodEnv EXCEPT !.run_fail = "invoke"] }

\* what classify.main does in each of them
ResultsApp == {main(e) : e \in EnvsApp}

\* main has not been called
NotRun == MainResult(0, "", NoneRet, NoMtime, NoFile, FALSE)

\* directory listings: files with distinct stems, in any glob order
Stems == {<<"1">>, <<"2", "0">>, <<"s", "-", "1">>}

Files == {File(stem, t) : stem \in Stems, t \in 1..MaxMtime}

RECURSIVE Listings(_)
Listings(n) ==
    IF n = 0 THEN {<<>>}
    ELSE LET shorter == Listings(n - 1)
         IN  shorter \cup
             {Append(d, f) : d \in {x \in shorter : Len(x) = n - 1},
                             f \in Files}

Dirs == {d \in Listings(Cardinality(Stems)) :
            \A i, j \in 1..Len(d) : i # j => d[i].stem # d[j].stem}

Outputs == {<<5 * a, 5 * b, 5 * c>> : a, b, c \in 0..MaxConf}

Columns == {Column(n, k) : n \in {0, 1, MIN_POINTS - 1, MIN_POINTS, MIN_POINTS + 1},
                           k \in {0, 1, MIN_POINTS - 1, MIN_POINTS}}

\* the environments a stand-alone run of main is checked in
EnvsMain ==
    {[GoodEnv EXCEPT !.pre = d1, !.post = d2] : d1, d2 \in Dirs}
    \cup {[GoodEnv EXCEPT !.output = o] : o \in Outputs}
    \cup {[GoodEnv EXCEPT !.absorbance = c, !.run_fail = f, !.read_ok = b] :
             c \in Columns, f \in {"none", "shape", "invoke"}, b \in BOOLEAN}
    \cup {[GoodEnv EXCEPT !.load_ok = a, !.script_exists = b, !.returncode = c,
                          !.stat_ok = d, !.pre = d1] :
             a, b, d \in BOOLEAN, c \in {0, 1}, d1 \in {<<>>, GoodDir}}

-----------------------------------------------------------------------------
(* app.py: TFTApp *)

\* the button samples the application is driven with: one per button, and
\* the read-failure sentinel for no button
SamplesApp == {0, 100 * LSB_PER_MV, 300 * LSB_PER_MV, 500 * LSB_PER_MV,
               SENTINEL_MV}

\* str.upper on the labels main can return
upper(res) ==
    CASE res = "MSG" -> "MSG"
      [] res = "Salt" -> "SALT"
      [] res = "Sugar" -> "SUGAR"
      [] OTHER -> res

\* f"{conf*100:.1f}%", conf in hundredths
fmt_pct(conf) == ToString(conf) \o ".0%"

\* A worker thread: where it stands, what classify.main gave it (ret, or the
\* exception exc raised inside the try), and whether start_scan has run again
\* since this thread was started.
Worker(pc, ret, exc, old) ==
    [pc |-> pc, ret |-> ret, exc |-> exc, old |-> old]

NewWorker == Worker("run", NoneRet, "", FALSE)

Supersede(w) == [w EXCEPT !.old = TRUE]

Alive == ui_pc # "exited"

\* the worker followed against the clock: where it stands (line of app.py),
\* its start_t, what the call gave it, when its sleep ends, and when it
\* wrote scan_status
Timed(pc, start_t, ret, exc, wake, at) ==
    [pc |-> pc, start_t |-> start_t, ret |-> ret, exc |-> exc, wake |-> wake,
     at |-> at]

\* no worker is being followed
NoTimed == Timed("none", 0, NoneRet, "", 0, 0)

\* one call of the length adjustment: input, expected length, and the result
\* (out is meaningful once done)
Adjust(x, expected_len, out, done) ==
    [x |-> x, expected_len |-> expected_len, out |-> out, done |-> done]

NoAdjust == Adjust(<<>>, 0, <<>>, FALSE)

\* __init__, lines 116-132
Init ==
    /\ running = TRUE
    /\ current_screen = "menu"
    /\ focus_index = 0
    /\ scan_status = "IDLE"
    /\ result_text = ""
    /\ conf_text = ""
    /\ button_queue = <<>>
    /\ mv = SENTINEL_MV
    /\ last_press = "NONE"
    /\ ui_pc = "events"
    /\ workers = EmptyBag
    /\ classify_mod \in BOOLEAN
    /\ env = GoodEnv
    /\ m = NotRun
    /\ now = 0
    /\ tw = NoTimed
    /\ adj = NoAdjust

\* poll_buttons that forgets a release: last_press follows presses only
poll_buttons_sticky(S, cap) ==
    /\ Alive
    /\ running
    /\ \E x \in S :
        LET btn == detect_button(x)
        IN  /\ mv' = x
            /\ IF btn # last_press /\ btn # "NONE"
               THEN /\ Len(button_queue) < cap
                    /\ button_queue' = Append(button_queue, btn)
                    /\ last_press' = btn
               ELSE UNCHANGED <<button_queue, last_press>>
    /\ UNCHANGED <<running, current_screen, focus_index, scan_status,
                   result_text, conf_text, ui_pc, workers, classify_mod, env, m, now, tw, adj>>

\* poll_buttons, one iteration of lines 137-145, sampling from S with at most
\* cap events queued
poll_buttons(S, cap) ==
    /\ Alive
    /\ running
    /\ \E x \in S :
        LET btn == detect_button(x)
        IN  /\ mv' = x
            /\ IF btn # last_press
               THEN /\ IF btn # "NONE"
                       THEN /\ Len(button_queue) < cap
                            /\ button_queue' = Append(button_queue, btn)
                       ELSE button_queue' = button_queue
                    /\ last_press' = btn
               ELSE UNCHANGED <<button_queue, last_press>>
    /\ UNCHANGED <<running, current_screen, focus_index, scan_status,
                   result_text, conf_text, ui_pc, workers, classify_mod, env, m, now, tw, adj>>

\* start_scan setting the status without creating the thread
start_scan_no_thread ==
    /\ BagCardinality(workers) < MaxWorkers
    /\ scan_status' = "SCANNING"
    /\ workers' = workers

\* start_scan leaving the status for the thread to set
start_scan_lazy ==
    /\ BagCardinality(workers) < MaxWorkers
    /\ scan_status' = scan_status
    /\ workers' = BagOfAll(Supersede, workers) (+) SetToBag({NewWorker})

\* start_scan, lines 171-207
start_scan ==
    /\ BagCardinality(workers) < MaxWorkers
    /\ scan_status' = "SCANNING"
    /\ workers' = BagOfAll(Supersede, workers) (+) SetToBag({NewWorker})

\* handle_input moving the focus down without wrapping
handle_input_clamp(key, run0) ==
    IF current_screen = "menu"
    THEN IF key = "UP" \/ key = "DOWN"
         THEN /\ focus_index' = IF focus_index < 1 THEN focus_index + 1 ELSE 1
              /\ running' = run0
              /\ UNCHANGED <<current_screen, scan_status, workers>>
         ELSE IF key = "ENTER"
         THEN IF focus_index = 0
              THEN /\ current_screen' = "scan"
                   /\ scan_status' = "IDLE"
                   /\ running' = run0
                   /\ UNCHANGED <<focus_index, workers>>
              ELSE /\ running' = FALSE
                   /\ UNCHANGED <<current_screen, focus_index, scan_status, workers>>
         ELSE /\ running' = run0
              /\ UNCHANGED <<current_screen, focus_index, scan_status, workers>>
    ELSE IF key = "ENTER" /\ scan_status # "SCANNING"
         THEN /\ start_scan
              /\ running' = run0
              /\ UNCHANGED <<current_screen, focus_index>>
         ELSE IF key = "RIGHT"
         THEN /\ current_screen' = "menu"
              /\ running' = run0
              /\ UNCHANGED <<focus_index, scan_status, workers>>
         ELSE /\ running' = run0
              /\ UNCHANGED <<current_screen, focus_index, scan_status, workers>>

\* handle_input starting a scan on every ENTER of the Scan screen
handle_input_restart(key, run0) ==
    IF current_screen = "menu"
    THEN IF key = "UP" \/ key = "DOWN"
         THEN /\ focus_index' = 1 - focus_index
              /\ running' = run0
              /\ UNCHANGED <<current_screen, scan_status, workers>>
         ELSE IF key = "ENTER"
         THEN IF focus_index = 0
              THEN /\ current_screen' = "scan"
                   /\ scan_status' = "IDLE"
                   /\ running' = run0
                   /\ UNCHANGED <<focus_index, workers>>
              ELSE /\ running' = FALSE
                   /\ UNCHANGED <<current_screen, focus_index, scan_status, workers>>
         ELSE /\ running' = run0
              /\ UNCHANGED <<current_screen, focus_index, scan_status, workers>>
    ELSE IF key = "ENTER"
         THEN /\ start_scan
              /\ running' = run0
              /\ UNCHANGED <<current_screen, focus_index>>
         ELSE IF key = "RIGHT"
         THEN /\ current_screen' = "menu"
              /\ running' = run0
              /\ UNCHANGED <<focus_index, scan_status, workers>>
         ELSE /\ running' = run0
              /\ UNCHANGED <<current_screen, focus_index, scan_status, workers>>

\* handle_input, lines 153-168; run0 is running as the event loop left it
handle_input(key, run0) ==
    IF current_screen = "menu"
    THEN IF key = "UP" \/ key = "DOWN"
         THEN /\ focus_index' = 1 - focus_index
              /\ running' = run0
              /\ UNCHANGED <<current_screen, scan_status, workers>>
         ELSE IF key = "ENTER"
         THEN IF focus_index = 0
              THEN /\ current_screen' = "scan"
                   /\ scan_status' = "IDLE"
                   /\ running' = run0
                   /\ UNCHANGED <<focus_index, workers>>
              ELSE /\ running' = FALSE
                   /\ UNCHANGED <<current_screen, focus_index, scan_status, workers>>
         ELSE /\ running' = run0
              /\ UNCHANGED <<current_screen, focus_index, scan_status, workers>>
    ELSE IF key = "ENTER" /\ scan_status # "SCANNING"
         THEN /\ start_scan
              /\ running' = run0
              /\ UNCHANGED <<current_screen, focus_index>>
         ELSE IF key = "RIGHT"
         THEN /\ current_screen' = "menu"
              /\ running' = run0
              /\ UNCHANGED <<focus_index, scan_status, workers>>
         ELSE /\ running' = run0
              /\ UNCHANGED <<current_screen, focus_index, scan_status, workers>>

\* run_input taking the newest queued button instead of the oldest
run_input_lifo(quit) ==
    /\ ui_pc = "events"
    /\ running
    /\ ui_pc' = "draw"
    /\ LET run0 == IF quit THEN FALSE ELSE running
       IN  IF button_queue # <<>>
           THEN /\ button_queue' = SubSeq(button_queue, 1, Len(button_queue) - 1)
                /\ handle_input(button_queue[Len(button_queue)], run0)
           ELSE /\ running' = run0
                /\ UNCHANGED <<button_queue, current_screen, focus_index,
                               scan_status, workers>>
    /\ UNCHANGED <<result_text, conf_text, mv, last_press, classify_mod, env, m, now, tw, adj>>

\* run_input emptying the queue in one tick
run_input_drain(quit) ==
    /\ ui_pc = "events"
    /\ running
    /\ ui_pc' = "draw"
    /\ LET run0 == IF quit THEN FALSE ELSE running
       IN  IF button_queue # <<>>
           THEN /\ button_queue' = <<>>
                /\ handle_input(Head(button_queue), run0)
           ELSE /\ running' = run0
                /\ UNCHANGED <<button_queue, current_screen, focus_index,
                               scan_status, workers>>
    /\ UNCHANGED <<result_text, conf_text, mv, last_press, classify_mod, env, m, now, tw, adj>>

\* run, lines 317-324 of one iteration: the toolkit's events (quit: a QUIT
\* event is among them), then at most one queued button
run_input(quit) ==
    /\ ui_pc = "events"
    /\ running
    /\ ui_pc' = "draw"
    /\ LET run0 == IF quit THEN FALSE ELSE running
       IN  IF button_queue # <<>>
           THEN /\ button_queue' = Tail(button_queue)
                /\ handle_input(Head(button_queue), run0)
           ELSE /\ running' = run0
                /\ UNCHANGED <<button_queue, current_screen, focus_index,
                               scan_status, workers>>
    /\ UNCHANGED <<result_text, conf_text, mv, last_press, classify_mod, env, m, now, tw, adj>>

\* run_draw holding the frame back until the scan threads have ended
run_draw_join ==
    /\ ui_pc = "draw"
    /\ workers = EmptyBag
    /\ IF running
       THEN /\ ui_pc' = "events"
            /\ workers' = workers
       ELSE /\ ui_pc' = "exited"
            /\ workers' = EmptyBag
    /\ UNCHANGED <<running, current_screen, focus_index, scan_status,
                   result_text, conf_text, button_queue, mv, last_press,
                   classify_mod, env, m, now, tw, adj>>

\* run, lines 326-335: compose and present the frame; when running has been
\* cleared the loop ends here, and with it the process and its daemon threads
run_draw ==
    /\ ui_pc = "draw"
    /\ IF running
       THEN /\ ui_pc' = "events"
            /\ workers' = workers
       ELSE /\ ui_pc' = "exited"
            /\ workers' = EmptyBag
    /\ UNCHANGED <<running, current_screen, focus_index, scan_status,
                   result_text, conf_text, button_queue, mv, last_press,
                   classify_mod, env, m, now, tw, adj>>

\* status_of leaving the screen idle when nothing was detected
status_of_idle(w) ==
    IF w.exc # "" THEN "ERROR"
    ELSE IF w.ret[3] # "" THEN "ERROR"
    ELSE IF w.ret[1] = "Undetected" THEN "IDLE"
    ELSE "RESULT"

\* worker, lines 189-204: the three fields a worker writes, from what the
\* call gave it
status_of(w) ==
    IF w.exc # "" THEN "ERROR"
    ELSE IF w.ret[3] # "" THEN "ERROR"
    ELSE "RESULT"

text_of(w) ==
    IF w.exc # "" THEN "CRASH"
    ELSE IF w.ret[3] # "" THEN "SYS ERR"
    ELSE IF w.ret[1] = "Undetected" \/ w.ret[1] = "UNKNOWN" THEN "UNDETECTED"
    ELSE upper(w.ret[1])

conf_of(w) ==
    IF w.exc # "" THEN w.exc
    ELSE IF w.ret[3] # "" THEN w.ret[3]
    ELSE IF w.ret[1] = "Undetected" \/ w.ret[1] = "UNKNOWN" THEN "---"
    ELSE fmt_pct(w.ret[2])

Replace(w, w2) == (workers (-) SetToBag({w})) (+) SetToBag({w2})

\* called taking a None from main for "nothing detected"
called_none_ok(w, r) ==
    IF ~classify_mod
    THEN [w EXCEPT !.ret = <<"No Model", 0, "Missing File">>]
    ELSE IF r.exc # ""
    THEN [w EXCEPT !.exc = r.exc]
    ELSE IF r.ret = NoneRet
    THEN [w EXCEPT !.ret = <<UNDETECTED_LABEL, 0, "">>]
    ELSE [w EXCEPT !.ret = r.ret]

\* worker, lines 175-187: the call of classify.main (or the fallback), the
\* unpacking of its result r, and the pacing sleep
called(w, r) ==
    IF ~classify_mod
    THEN [w EXCEPT !.ret = <<"No Model", 0, "Missing File">>]
    ELSE IF r.exc # ""
    THEN [w EXCEPT !.exc = r.exc]
    ELSE IF r.ret = NoneRet
    THEN [w EXCEPT !.exc = EXC_UNPACK]
    ELSE [w EXCEPT !.ret = r.ret]

\* worker_run going on only while the Scan screen is shown
worker_run_on_scan(w, r) ==
    /\ Alive
    /\ current_screen = "scan"
    /\ w.pc = "run"
    /\ LET w2 == called(w, r)
       IN  /\ scan_status' = status_of(w2)
           /\ workers' = Replace(w, [w2 EXCEPT !.pc = "text"])
    /\ UNCHANGED <<running, current_screen, focus_index, result_text,
                   conf_text, button_queue, mv, last_press, ui_pc,
                   classify_mod, env, m, now, tw, adj>>

\* worker, lines 175-190 (194, 198, 202): everything the thread does on its
\* own, up to and including its first write to the shared fields; r is what
\* its call of classify.main does
worker_run(w, r) ==
    /\ Alive
    /\ w.pc = "run"
    /\ LET w2 == called(w, r)
       IN  /\ scan_status' = status_of(w2)
           /\ workers' = Replace(w, [w2 EXCEPT !.pc = "text"])
    /\ UNCHANGED <<running, current_screen, focus_index, result_text,
                   conf_text, button_queue, mv, last_press, ui_pc,
                   classify_mod, env, m, now, tw, adj>>

\* worker, lines 191, 195, 199, 203
worker_text(w) ==
    /\ Alive
    /\ w.pc = "text"
    /\ result_text' = text_of(w)
    /\ workers' = Replace(w, [w EXCEPT !.pc = "conf"])
    /\ UNCHANGED <<running, current_screen, focus_index, scan_status,
                   conf_text, button_queue, mv, last_press, ui_pc,
                   classify_mod, env, m, now, tw, adj>>

\* worker_conf ending the application when the scan crashed
worker_conf_exit(w) ==
    /\ Alive
    /\ w.pc = "conf"
    /\ conf_text' = conf_of(w)
    /\ running' = (running /\ w.exc = "")
    /\ workers' = workers (-) SetToBag({w})
    /\ UNCHANGED <<current_screen, focus_index, scan_status,
                   result_text, button_queue, mv, last_press, ui_pc,
                   classify_mod, env, m, now, tw, adj>>

\* worker, lines 192, 196, 200, 204; the thread ends
worker_conf(w) ==
    /\ Alive
    /\ w.pc = "conf"
    /\ conf_text' = conf_of(w)
    /\ workers' = workers (-) SetToBag({w})
    /\ UNCHANGED <<running, current_screen, focus_index, scan_status,
                   result_text, button_queue, mv, last_press, ui_pc,
                   classify_mod, env, m, now, tw, adj>>

Next ==
    \/ poll_buttons(SamplesApp, MaxQueue)
    \/ \E quit \in BOOLEAN : run_input(quit)
    \/ run_draw
    \/ \E w \in BagToSet(workers) : \E r \in ResultsApp : worker_run(w, r)
    \/ \E w \in BagToSet(workers) : worker_text(w)
    \/ \E w \in BagToSet(workers) : worker_conf(w)

Spec == Init /\ [][Next]_vars

-----------------------------------------------------------------------------
(* classify.py run on its own (lines 206-207) *)

run_main ==
    /\ m = NotRun
    /\ m' = main(env)
    /\ UNCHANGED <<app_vars, env, now, tw, adj>>

InitMainEnv ==
    /\ running = TRUE
    /\ current_screen = "menu"
    /\ focus_index = 0
    /\ scan_status = "IDLE"
    /\ result_text = ""
    /\ conf_text = ""
    /\ button_queue = <<>>
    /\ mv = SENTINEL_MV
    /\ last_press = "NONE"
    /\ ui_pc = "events"
    /\ workers = EmptyBag
    /\ classify_mod = TRUE
    /\ env \in EnvsMain
    /\ m = NotRun
    /\ now = 0
    /\ tw = NoTimed
    /\ adj = NoAdjust

NextMain == run_main

SpecMain == InitMainEnv /\ [][NextMain]_vars

-----------------------------------------------------------------------------
(* The button poller on its own *)

Thresholds == {20, 70, 160, 200, 350, 450, 700}

SamplesPoll ==
    {t * LSB_PER_MV + d : t \in Thresholds, d \in (0 - Near)..Near}
    \cup {RAW_MIN, 0, 100 * LSB_PER_MV, 300 * LSB_PER_MV, 500 * LSB_PER_MV,
          RAW_MAX, SENTINEL_MV}

NextPoll == poll_buttons(SamplesPoll, MaxPolled)

InitPoll == Init /\ classify_mod = TRUE

SpecPoll == InitPoll /\ [][NextPoll]_vars

-----------------------------------------------------------------------------
(* One worker thread against the clock (app.py:174-205) *)

\* One tick is 0.2 s: the minimum animation time of 1.2 s (line 187) and the
\* fallback's sleep of 1 s (line 182)
PACE_TICKS == 6
FALLBACK_TICKS == 5

\* what classify.main can do when the worker calls it, the failures to load
\* the model and to stat the artifact included
ResultsPace ==
    ResultsApp \cup {main([GoodEnv EXCEPT !.load_ok = FALSE]),
                     main([GoodEnv EXCEPT !.stat_ok = FALSE])}

unchanged_app ==
    UNCHANGED <<running, current_screen, focus_index, button_queue, mv,
                last_press, ui_pc, workers, classify_mod, env, m, adj>>

\* time passes
tick ==
    /\ now < MaxTicks
    /\ now' = now + 1
    /\ UNCHANGED <<scan_status, result_text, conf_text, tw>>
    /\ unchanged_app

\* start_scan, line 172, and the thread's line 175
timed_start ==
    /\ Alive
    /\ tw.pc = "none"
    /\ scan_status' = "SCANNING"
    /\ tw' = Timed("call", now, NoneRet, "", 0, 0)
    /\ UNCHANGED <<result_text, conf_text, now>>
    /\ unchanged_app

\* lines 178-183: the call returns (or raises) now; the fallback's sleep has
\* taken at least FALLBACK_TICKS. An exception leaves the try block for the
\* handler of line 201.
timed_call(r) ==
    /\ Alive
    /\ tw.pc = "call"
    /\ classify_mod \/ now >= tw.start_t + FALLBACK_TICKS
    /\ LET w2 == called(tw, r)
       IN  tw' = [w2 EXCEPT !.pc = IF w2.exc # "" THEN "status" ELSE "pace"]
    /\ UNCHANGED <<scan_status, result_text, conf_text, now>>
    /\ unchanged_app

\* lines 186-187
timed_pace ==
    /\ Alive
    /\ tw.pc = "pace"
    /\ LET elapsed == now - tw.start_t
       IN  IF elapsed < PACE_TICKS
           THEN tw' = [tw EXCEPT !.pc = "sleep",
                                 !.wake = now + (PACE_TICKS - elapsed)]
           ELSE tw' = [tw EXCEPT !.pc = "status"]
    /\ UNCHANGED <<scan_status, result_text, conf_text, now>>
    /\ unchanged_app

\* time.sleep returns
timed_wake ==
    /\ Alive
    /\ tw.pc = "sleep"
    /\ now >= tw.wake
    /\ tw' = [tw EXCEPT !.pc = "status"]
    /\ UNCHANGED <<scan_status, result_text, conf_text, now>>
    /\ unchanged_app

\* lines 190, 194, 198, 202
timed_status ==
    /\ Alive
    /\ tw.pc = "status"
    /\ scan_status' = status_of(tw)
    /\ tw' = [tw EXCEPT !.pc = "text", !.at = now]
    /\ UNCHANGED <<result_text, conf_text, now>>
    /\ unchanged_app

\* lines 191, 195, 199, 203
timed_text ==
    /\ Alive
    /\ tw.pc = "text"
    /\ result_text' = text_of(tw)
    /\ tw' = [tw EXCEPT !.pc = "conf"]
    /\ UNCHANGED <<scan_status, conf_text, now>>
    /\ unchanged_app

\* lines 192, 196, 200, 204; the thread ends
timed_conf ==
    /\ Alive
    /\ tw.pc = "conf"
    /\ conf_text' = conf_of(tw)
    /\ tw' = [tw EXCEPT !.pc = "done"]
    /\ UNCHANGED <<scan_status, result_text, now>>
    /\ unchanged_app

\* the Scan screen, as ENTER on the Menu leaves it (lines 159-160)
InitPace ==
    /\ running = TRUE
    /\ current_screen = "scan"
    /\ focus_index = 0
    /\ scan_status = "IDLE"
    /\ result_text = ""
    /\ conf_text = ""
    /\ button_queue = <<>>
    /\ mv = SENTINEL_MV
    /\ last_press = "NONE"
    /\ ui_pc = "events"
    /\ workers = EmptyBag
    /\ classify_mod \in BOOLEAN
    /\ env = GoodEnv
    /\ m = NotRun
    /\ now = 0
    /\ tw = NoTimed
    /\ adj = NoAdjust

NextPace ==
    \/ tick
    \/ timed_start
    \/ \E r \in ResultsPace : timed_call(r)
    \/ timed_pace
    \/ timed_wake
    \/ timed_status
    \/ timed_text
    \/ timed_conf

SpecPace == InitPace /\ [][NextPace]_vars

\* The same worker beside the UI loop, which a QUIT event ends: the worker is
\* a daemon thread (line 207) and ends with the process. Threads are
\* scheduled fairly and time passes.
NextRun ==
    \/ tick
    \/ timed_start
    \/ \E r \in ResultsPace : timed_call(r)
    \/ timed_pace
    \/ timed_wake
    \/ timed_status
    \/ timed_text
    \/ timed_conf
    \/ \E quit \in BOOLEAN : run_input(quit)
    \/ run_draw

SpecRunLive ==
    /\ InitPace
    /\ [][NextRun]_vars
    /\ WF_vars(tick)
    /\ WF_vars(\E r \in ResultsPace : timed_call(r))
    /\ WF_vars(timed_pace)
    /\ WF_vars(timed_wake)
    /\ WF_vars(timed_status)
    /\ WF_vars(timed_text)
    /\ WF_vars(timed_conf)
    /\ WF_vars(\E quit \in BOOLEAN : run_input(quit))
    /\ WF_vars(run_draw)

-----------------------------------------------------------------------------
(* The UI loop with a deeper button queue *)

\* what a scan gives: the queue and the navigation do not depend on it, so
\* every scan here is the successful one
ResultsUI == {main(GoodEnv)}

InitUI == Init /\ classify_mod = TRUE

NextUI ==
    \/ poll_buttons(SamplesApp, MaxPolled)
    \/ \E quit \in BOOLEAN : run_input(quit)
    \/ run_draw
    \/ \E w \in BagToSet(workers) : \E r \in ResultsUI : worker_run(w, r)
    \/ \E w \in BagToSet(workers) : worker_text(w)
    \/ \E w \in BagToSet(workers) : worker_conf(w)

SpecUI == InitUI /\ [][NextUI]_vars

\* The threads are scheduled fairly: the UI loop keeps iterating and every
\* worker keeps executing.
SpecUILive ==
    /\ InitUI
    /\ [][NextUI]_vars
    /\ WF_vars(\E quit \in BOOLEAN : run_input(quit))
    /\ WF_vars(run_draw)
    /\ WF_vars(\E w \in BagToSet(workers) : \E r \in ResultsUI : worker_run(w, r))
    /\ WF_vars(\E w \in BagToSet(workers) : worker_text(w))
    /\ WF_vars(\E w \in BagToSet(workers) : worker_conf(w))

-----------------------------------------------------------------------------
(* The length adjustment of run_model on its own (classify.py:93-103) *)

\* the spectra it is given: every sequence of at most MaxLen values
Spectra == UNION {[1..n -> {0, 1}] : n \in 0..MaxLen}

run_adjust ==
    /\ ~adj.done
    /\ adj' = [adj EXCEPT !.out = adjust(adj.x, adj.expected_len),
                          !.done = TRUE]
    /\ UNCHANGED <<app_vars, env, m, now, tw>>

InitAdjust ==
    /\ running = TRUE
    /\ current_screen = "menu"
    /\ focus_index = 0
    /\ scan_status = "IDLE"
    /\ result_text = ""
    /\ conf_text = ""
    /\ button_queue = <<>>
    /\ mv = SENTINEL_MV
    /\ last_press = "NONE"
    /\ ui_pc = "events"
    /\ workers = EmptyBag
    /\ classify_mod = TRUE
    /\ env = GoodEnv
    /\ m = NotRun
    /\ now = 0
    /\ tw = NoTimed
    /\ adj \in {Adjust(x, n, <<>>, FALSE) : x \in Spectra, n \in 0..(MaxLen + 1)}

NextAdjust == run_adjust

SpecAdjust == InitAdjust /\ [][NextAdjust]_vars

-----------------------------------------------------------------------------
(* Claims *)

Terminal == {"RESULT", "ERROR"}

\* C1: single-flight. At most one scan worker is alive at a time, whatever
\* button events, worker steps and completions came before.
C1_SingleFlight == BagCardinality(workers) <= 1

\* C2: atomic handoff. When the UI loop composes a frame and scan_status is
\* RESULT or ERROR, no worker has flipped the status to its outcome while
\* result_text or conf_text do not yet hold that outcome.
C2_AtomicHandoff ==
    (ui_pc = "draw" /\ scan_status \in Terminal) =>
        \A w \in BagToSet(workers) :
            (w.pc \in {"text", "conf"} /\ scan_status = status_of(w)) =>
                /\ w.pc = "text" => result_text = text_of(w)
                /\ conf_text = conf_of(w)

\* C3: a worker that was still running, with nothing written yet, when a new
\* scan was started is discarded: its completion changes none of scan_status,
\* result_text and conf_text.
C3_EarlierDiscarded ==
    [][\A w \in BagToSet(workers) :
          (w.old /\ w.pc = "run" /\ \E r \in ResultsApp : worker_run(w, r)) =>
              UNCHANGED <<scan_status, result_text, conf_text>>]_vars

\* newest modification time among the digit-only files of a listing
NewestDigitMtime(dir) ==
    LET ts == {dir[i].mtime : i \in {j \in 1..Len(dir) : isdigit(dir[j].stem)}}
    IN  IF ts = {} THEN NoMtime ELSE CHOOSE t \in ts : \A u \in ts : u <= t

\* C4: staleness guard. The artifact main reads is one of the directory after
\* the scan, has a digit-only base name and an mtime strictly greater than
\* the baseline taken before the scan; when the newest digit-only candidate
\* is not newer than the baseline no artifact is used and the attempt fails.
C4_StalenessGuard ==
    m # NotRun =>
        LET baseline == NewestDigitMtime(env.pre)
            newest == NewestDigitMtime(env.post)
        IN  /\ m.used # NoFile =>
                /\ \E i \in 1..Len(env.post) : env.post[i] = m.used
                /\ isdigit(m.used.stem)
                /\ m.used.mtime > baseline
            /\ (baseline # NoMtime /\ newest # NoMtime /\ newest <= baseline) =>
                /\ m.used = NoFile
                /\ m.ret = NoneRet
                /\ ~m.invoked

C4_Witness ==
    /\ m.line = 200
    /\ m.baseline # NoMtime
    /\ \E i \in 1..Len(env.post) :
          ~isdigit(env.post[i].stem) /\ env.post[i].mtime >= m.used.mtime

\* the absorbance column holds a NaN or fewer than 228 points
BadColumn(a) == (\E i \in 1..Len(a) : a[i] = NaN) \/ Len(a) < 228

\* the fatal per-scan failures: scan process exit status, no digit-only
\* artifact, artifact not newer than the baseline, invalid absorbance data,
\* exception while reading the artifact or running inference
Fatal(e) ==
    \/ e.returncode # 0
    \/ NewestDigitMtime(e.post) = NoMtime
    \/ /\ NewestDigitMtime(e.pre) # NoMtime
       /\ NewestDigitMtime(e.post) <= NewestDigitMtime(e.pre)
    \/ BadColumn(e.absorbance)
    \/ ~e.read_ok
    \/ e.run_fail # "none"

\* what main does in the environments of the application that hold a fatal
\* failure
FatalResults == {main(e) : e \in {x \in EnvsApp : Fatal(x)}}

\* C5: a worker whose scan fails fatally writes ERROR as its status, never
\* RESULT, and no worker run leaves the status it writes at SCANNING.
C5_FatalIsError ==
    [][\A w \in BagToSet(workers) :
          /\ \A r \in FatalResults :
                (classify_mod /\ worker_run(w, r)) => scan_status' = "ERROR"
          /\ (\E r \in ResultsApp : worker_run(w, r)) =>
                scan_status' \in Terminal]_vars

C5_Witness ==
    /\ workers = EmptyBag
    /\ scan_status = "ERROR"
    /\ result_text = "CRASH"
    /\ conf_text = EXC_UNPACK

\* ENTER is about to be handled on the Menu with the focus on SYSTEM OFF
SystemOff ==
    /\ ui_pc = "events"
    /\ button_queue # <<>>
    /\ Head(button_queue) = "ENTER"
    /\ current_screen = "menu"
    /\ focus_index = 1

\* C6 as claimed: running becomes false only through ENTER on the Menu with
\* the focus on the second item.
C6_OnlySystemOff == [][(running /\ ~running') => SystemOff]_vars

\* C6 as amended: running becomes false only in an input step of the UI loop,
\* through system off or through a QUIT event of the toolkit; no step of a
\* worker (no scan outcome, no scan error) and no step of the poller clears it.
C6_OnlyUILoop ==
    [][(running /\ ~running') =>
          /\ \E quit \in BOOLEAN : run_input(quit)
          /\ SystemOff \/ run_input(TRUE)]_vars

C6_Witness ==
    /\ ~running
    /\ current_screen = "menu"
    /\ focus_index = 1
    /\ scan_status = "ERROR"
    /\ result_text = "CRASH"

\* C7: debounce. A sample pushes its button exactly when it maps to a button
\* and the previous sample mapped to something else; otherwise the queue is
\* left alone.
C7_Debounce ==
    [][NextPoll =>
          button_queue' =
              IF detect_button(mv') # "NONE" /\ detect_button(mv') # detect_button(mv)
              THEN Append(button_queue, detect_button(mv'))
              ELSE button_queue]_vars

\* press, release, press of the same button has pushed two events
C7_Witness == button_queue = <<"UP", "UP">> /\ last_press = "UP"

InRange(x, lo, hi) == lo * LSB_PER_MV <= x /\ x <= hi * LSB_PER_MV

\* C8: the button detected for the sample is ENTER exactly below 20 mV, UP in
\* 70..160, DOWN in 200..350, RIGHT in 450..700, none exactly outside all of
\* these, and the sample lies in at most one of the ranges.
C8_DetectRanges ==
    /\ last_press \in Buttons \cup {"NONE"}
    /\ last_press = "ENTER" <=> mv < 20 * LSB_PER_MV
    /\ last_press = "UP" <=> InRange(mv, 70, 160)
    /\ last_press = "DOWN" <=> InRange(mv, 200, 350)
    /\ last_press = "RIGHT" <=> InRange(mv, 450, 700)
    /\ last_press = "NONE" <=>
          ~(mv < 20 * LSB_PER_MV \/ InRange(mv, 70, 160)
            \/ InRange(mv, 200, 350) \/ InRange(mv, 450, 700))
    /\ mv = SENTINEL_MV => last_press = "NONE"
    /\ Cardinality({i \in 1..4 :
            <<mv < 20 * LSB_PER_MV, InRange(mv, 70, 160),
              InRange(mv, 200, 350), InRange(mv, 450, 700)>>[i]}) <= 1

\* the failure sentinel was sampled after a button had been pressed
C8_Witness ==
    /\ mv = SENTINEL_MV
    /\ last_press = "NONE"
    /\ button_queue # <<>>

\* the environments of the application in which main reads an absorbance
\* column that holds a NaN or has fewer than 228 points
BadColumnEnvs ==
    {e \in EnvsApp : e.read_ok /\ main(e).used # NoFile /\ BadColumn(e.absorbance)}

BadColumnResults == {main(e) : e \in BadColumnEnvs}

\* C9: when the absorbance column read from the artifact holds a NaN or has
\* fewer than 228 points, main returns the scan-again message without
\* invoking the interpreter, and the worker surfaces it as ERROR.
C9_ValidationError ==
    [][\A w \in BagToSet(workers) : \A r \in BadColumnResults :
          (classify_mod /\ worker_run(w, r)) =>
              /\ r.ret = <<"", 0, ERR_POINTS>>
              /\ ~r.invoked
              /\ scan_status' = "ERROR"]_vars

C9_Witness ==
    /\ scan_status = "ERROR"
    /\ result_text = "SYS ERR"
    /\ conf_text = ERR_POINTS

MaxOf(p) == CHOOSE x \in {p[i] : i \in 1..Len(p)} : \A j \in 1..Len(p) : p[j] <= x

FirstAt(p, x) == CHOOSE i \in 1..Len(p) : p[i] = x /\ \A j \in 1..(i - 1) : p[j] # x

\* C10: classify returns Undetected when the maximum of the output is
\* strictly below 0.8, whatever its index, and otherwise (0.8 included) the
\* class name at the index of the maximum with the maximum as confidence.
C10_ArgmaxThreshold ==
    m.line = 200 =>
        LET mx == MaxOf(env.output)
        IN  IF mx < 80
            THEN m.ret[1] = "Undetected"
            ELSE m.ret = <<<<"MSG", "Salt", "Sugar">>[FirstAt(env.output, mx)], mx, "">>

\* maximum 0.95 at index 1 gives Salt with confidence 0.95
C10_Witness ==
    /\ env.output = <<0, 95, 5>>
    /\ m.ret = <<"Salt", 95, "">>

\* C11: a worker never surfaces an outcome (its write of RESULT or ERROR to
\* scan_status) before PACE_TICKS have passed since it read start_t, on the
\* failure paths as on the others.
C11_MinElapsed ==
    tw.pc \in {"text", "conf", "done"} => tw.at - tw.start_t >= PACE_TICKS

\* C12: a model that cannot be loaded is never the ERROR outcome of a scan:
\* no worker finishes a scan with the loader's exception in hand.
C12_LoadNotPerScan ==
    ~(tw.pc \in {"text", "conf", "done"} /\ tw.exc = EXC_LOAD
      /\ scan_status = "ERROR")

\* the UI loop is about to hand key to handle_input on screen
Handling(key, screen) ==
    /\ ui_pc = "events"
    /\ running
    /\ button_queue # <<>>
    /\ Head(button_queue) = key
    /\ current_screen = screen

\* C13: the tick that handles ENTER on the Scan screen while scan_status is
\* IDLE, RESULT or ERROR ends its input step with scan_status = SCANNING and
\* exactly one new worker; the frame of that tick is composed after it, and
\* until it is composed nothing but a worker writing its outcome changes
\* scan_status.
C13_EnterStarts ==
    [][/\ (/\ Handling("ENTER", "scan")
           /\ scan_status \in {"IDLE", "RESULT", "ERROR"}
           /\ ui_pc' # ui_pc)
          => /\ scan_status' = "SCANNING"
             /\ ui_pc' = "draw"
             /\ BagCardinality(workers') = BagCardinality(workers) + 1
             /\ CopiesIn(NewWorker, workers') = 1
             /\ button_queue' = Tail(button_queue)
       /\ (ui_pc = "draw" /\ scan_status' # scan_status)
          => /\ scan_status' \in Terminal
             /\ \E w \in BagToSet(workers) : \E r \in ResultsApp :
                    worker_run(w, r)]_vars

\* a scan restarted from a shown outcome: the frame about to be drawn is
\* SCANNING
C13_Witness ==
    /\ ui_pc = "draw"
    /\ scan_status = "SCANNING"
    /\ result_text \in {"SALT", "SYS ERR", "CRASH", "UNDETECTED"}
    /\ workers = SetToBag({NewWorker})

\* C14: the tick that handles ENTER on the Scan screen while scan_status is
\* SCANNING consumes the event and changes nothing else: no worker is
\* spawned, and current_screen, focus_index, scan_status, result_text and
\* conf_text keep their values, as does running unless the toolkit delivered
\* a QUIT event in the same tick.
C14_EnterIgnored ==
    [][(/\ Handling("ENTER", "scan")
        /\ scan_status = "SCANNING"
        /\ ui_pc' # ui_pc)
       => /\ workers' = workers
          /\ UNCHANGED <<current_screen, focus_index, scan_status,
                         result_text, conf_text>>
          /\ button_queue' = Tail(button_queue)
          /\ \E quit \in BOOLEAN : run_input(quit) /\ running' = ~quit]_vars

\* a second ENTER waits in the queue while a scan is under way
C14_Witness ==
    /\ Handling("ENTER", "scan")
    /\ scan_status = "SCANNING"
    /\ workers # EmptyBag

\* C15: the button queue changes only by the poller appending one event at
\* its tail or by the UI loop removing its head and handing that head to
\* handle_input, so events are delivered at most once and in the order
\* pushed; and while the process runs the UI loop always comes to take the
\* head of a non-empty queue, so every pushed event is eventually delivered.
C15_QueueDelivery ==
    /\ [][button_queue' # button_queue =>
            \/ /\ \E b \in Buttons : button_queue' = Append(button_queue, b)
               /\ ui_pc' = ui_pc
            \/ /\ button_queue # <<>>
               /\ button_queue' = Tail(button_queue)
               /\ ui_pc = "events" /\ ui_pc' = "draw"
               /\ \E quit \in BOOLEAN :
                      handle_input(Head(button_queue), ~quit)]_vars
    /\ [][(ui_pc = "events" /\ ui_pc' = "draw" /\ button_queue # <<>>)
            => button_queue' = Tail(button_queue)]_vars
    /\ (ui_pc = "events" /\ button_queue # <<>>) ~> (ui_pc = "draw")
    /\ (ui_pc = "draw" /\ running) ~> (ui_pc = "events")

\* UP was delivered (the focus moved) while the ENTER pushed after it still
\* waits
C15_Witness ==
    /\ ui_pc = "draw"
    /\ current_screen = "menu"
    /\ focus_index = 1
    /\ button_queue = <<"ENTER">>

\* C16: no step shortens the button queue by more than one event; an event
\* is removed, and the UI state (screen, focus, workers started) changes,
\* only in the input step of a tick, which applies handle_input once, to the
\* head of the queue; the step that composes the frame comes after it and
\* changes none of them.
C16_OnePerTick ==
    [][/\ Len(button_queue') >= Len(button_queue) - 1
       /\ (\/ Len(button_queue') < Len(button_queue)
           \/ current_screen' # current_screen
           \/ focus_index' # focus_index
           \/ BagCardinality(workers') > BagCardinality(workers))
          => (ui_pc = "events" /\ ui_pc' = "draw")
       /\ (ui_pc = "events" /\ ui_pc' = "draw")
          => IF button_queue # <<>>
             THEN /\ button_queue' = Tail(button_queue)
                  /\ \E quit \in BOOLEAN :
                         handle_input(Head(button_queue), ~quit)
             ELSE UNCHANGED <<button_queue, current_screen, focus_index,
                              scan_status, workers>>
       /\ (ui_pc = "draw" /\ ui_pc' # "draw")
          => UNCHANGED <<button_queue, current_screen, focus_index,
                         scan_status, running>>]_vars

\* a tick begins with two events queued
C16_Witness ==
    /\ ui_pc = "events"
    /\ running
    /\ Len(button_queue) = 2

\* the model's cap on live threads keeps the input step from starting one more
AtWorkerCap ==
    /\ BagCardinality(workers) = MaxWorkers
    /\ Handling("ENTER", "scan")
    /\ scan_status # "SCANNING"

\* C17: the UI loop never waits on a worker. While a worker is active both
\* halves of the UI tick stay enabled; the input step that starts a scan ends
\* with the new worker still at its beginning; and RIGHT handled on the Scan
\* screen while a worker is active returns to the Menu and leaves the worker
\* and scan_status alone.
C17_UINeverWaits ==
    /\ []((workers # EmptyBag /\ ui_pc = "draw") => ENABLED run_draw)
    /\ []((workers # EmptyBag /\ ui_pc = "events" /\ ~AtWorkerCap)
            => ENABLED run_input(FALSE))
    /\ [][/\ (ui_pc' # ui_pc /\ BagCardinality(workers') > BagCardinality(workers))
             => (ui_pc' = "draw" /\ CopiesIn(NewWorker, workers') = 1)
          /\ (Handling("RIGHT", "scan") /\ workers # EmptyBag /\ ui_pc' # ui_pc)
             => /\ current_screen' = "menu"
                /\ button_queue' = Tail(button_queue)
                /\ UNCHANGED <<workers, scan_status>>]_vars

\* back on the Menu while the scan is still under way
C17_Witness ==
    /\ current_screen = "menu"
    /\ scan_status = "SCANNING"
    /\ workers = SetToBag({NewWorker})
    /\ ui_pc = "draw"

\* conversion words at the ends of both halves of the signed range
BusWords == {0, 1, 32767, 32768, 65535}

\* C18: a failed bus read is absorbed. read_ads1115 returns the sentinel when
\* the bus is absent or a transfer raises; the sentinel is no button; a
\* sample that reads the sentinel pushes no event and counts as a release;
\* and while running holds the poller can always take its next sample, a
\* failed one included.
C18_ReadFailureAbsorbed ==
    /\ [](/\ \A word \in BusWords :
                /\ read_ads1115_call("none", word) = SENTINEL_MV
                /\ read_ads1115_call("raises", word) = SENTINEL_MV
                /\ read_ads1115_call("ok", word) \in RAW_MIN..RAW_MAX
          /\ detect_button(SENTINEL_MV) = "NONE"
          /\ running => /\ ENABLED poll_buttons(SamplesPoll, MaxPolled)
                        /\ ENABLED poll_buttons({SENTINEL_MV}, MaxPolled))
    /\ [][mv' = SENTINEL_MV =>
            (button_queue' = button_queue /\ last_press' = "NONE")]_vars

\* a read fails after UP was pressed and queued
C18_Witness ==
    /\ mv = SENTINEL_MV
    /\ last_press = "NONE"
    /\ button_queue = <<"UP">>

\* C19: the adjusted sequence has exactly the expected length L; adjusting
\* it again to L changes nothing; and when L is at least the length n of the
\* input x, the adjusted sequence is x followed by copies of its last value
\* (0 for an empty x), and truncating it back to n gives x.
C19_AdjustRoundTrip ==
    adj.done =>
        LET x == adj.x
            n == Len(adj.x)
            L == adj.expected_len
            out == adj.out
        IN  /\ Len(out) = L
            /\ adjust(out, L) = out
            /\ L >= n =>
                /\ adjust(out, n) = x
                /\ SubSeq(out, 1, n) = x
                /\ \A i \in (n + 1)..L : out[i] = IF n > 0 THEN x[n] ELSE 0

\* a spectrum one short of the expected length was padded
C19_Witness ==
    /\ adj.done
    /\ adj.x = <<0, 1>>
    /\ adj.expected_len = 3
    /\ adj.out = <<0, 1, 1>>

\* C20: the UI starts on the Menu with focus 0; focus_index is always 0 or 1;
\* the tick that handles UP or DOWN on the Menu replaces the focus by the
\* other item (so that a second one restores it) and changes nothing else;
\* the tick that handles UP or DOWN on the Scan screen changes nothing. (In
\* both, running is cleared only by a QUIT event of the same tick.)
C20_FocusToggle ==
    /\ (current_screen = "menu" /\ focus_index = 0)
    /\ [](focus_index \in {0, 1})
    /\ [][/\ ((Handling("UP", "menu") \/ Handling("DOWN", "menu")) /\ ui_pc' # ui_pc)
             => /\ focus_index' = 1 - focus_index
                /\ 1 - focus_index' = focus_index
                /\ button_queue' = Tail(button_queue)
                /\ UNCHANGED <<current_screen, scan_status, result_text,
                               conf_text, workers>>
                /\ \E quit \in BOOLEAN : run_input(quit) /\ running' = ~quit
          /\ ((Handling("UP", "scan") \/ Handling("DOWN", "scan")) /\ ui_pc' # ui_pc)
             => /\ button_queue' = Tail(button_queue)
                /\ UNCHANGED <<focus_index, current_screen, scan_status,
                               result_text, conf_text, workers>>
                /\ \E quit \in BOOLEAN : run_input(quit) /\ running' = ~quit]_vars

\* the focus was moved once and a second DOWN waits
C20_Witness ==
    /\ ui_pc = "draw"
    /\ current_screen = "menu"
    /\ focus_index = 1
    /\ button_queue = <<"DOWN">>

InClock == tw.start_t + PACE_TICKS <= MaxTicks

\* the order of the worker's positions
PcRank ==
    [none |-> 0, call |-> 1, pace |-> 2, sleep |-> 3, status |-> 4,
     text |-> 5, conf |-> 6, done |-> 7]

\* a step of the worker writes scan_status only when it leaves line 190, 194,
\* 198 or 202, and then writes RESULT or ERROR; its steps go forward only, so
\* it does so once
OneTerminalWrite ==
    (tw.pc' # tw.pc) =>
        /\ PcRank[tw.pc'] > PcRank[tw.pc]
        /\ IF tw.pc = "status"
           THEN scan_status' \in Terminal /\ tw.pc' = "text"
           ELSE tw.pc # "none" => scan_status' = scan_status

\* C22 as stated: a started worker writes exactly one terminal status, and
\* under fair scheduling it always comes to write it.
C22_WorkerTerminates ==
    /\ [][OneTerminalWrite]_vars
    /\ (tw.pc = "call" /\ InClock) ~> (tw.pc \in {"text", "conf", "done"})

\* C22, amended: a started worker writes exactly one terminal status, and
\* under fair scheduling it comes to write it and to end, unless the process
\* ends first.
C22_WorkerTerminatesAlive ==
    /\ [][OneTerminalWrite]_vars
    /\ (tw.pc = "call" /\ InClock) ~> (tw.pc \in {"text", "conf", "done"} \/ ~Alive)
    /\ (tw.pc = "call" /\ InClock) ~> (tw.pc = "done" \/ ~Alive)

\* the worker ran to its end and left a result, the process still running
C22_Witness ==
    /\ tw.pc = "done"
    /\ scan_status = "RESULT"
    /\ Alive
    /\ running

\* C23: the tick that handles RIGHT on the Scan screen ends on the Menu and
\* leaves scan_status, result_text, conf_text, focus_index, the workers and
\* (but for a QUIT event of the same tick) running as they were; and on the
\* Menu every active worker can still take its next step, the write of its
\* outcome included.
C23_RightKeepsWorker ==
    /\ [][(Handling("RIGHT", "scan") /\ ui_pc' # ui_pc)
            => /\ current_screen' = "menu"
               /\ button_queue' = Tail(button_queue)
               /\ UNCHANGED <<scan_status, result_text, conf_text,
                              focus_index, workers>>
               /\ \E quit \in BOOLEAN : run_input(quit) /\ running' = ~quit]_vars
    /\ []((Alive /\ current_screen = "menu") =>
            \A w \in BagToSet(workers) :
                CASE w.pc = "run" -> \A r \in ResultsUI : ENABLED worker_run(w, r)
                  [] w.pc = "text" -> ENABLED worker_text(w)
                  [] w.pc = "conf" -> ENABLED worker_conf(w))

\* on the Menu, the worker of the abandoned scan has just written RESULT
C23_Witness ==
    /\ current_screen = "menu"
    /\ scan_status = "RESULT"
    /\ result_text = ""
    /\ \E w \in BagToSet(workers) : w.pc = "text"

\* C24: while the process runs, scan_status = SCANNING only if some worker
\* has not yet written its terminal status; and under fair scheduling
\* SCANNING is always left again (or the process ends).
C24_NeverStuck ==
    /\ []((Alive /\ scan_status = "SCANNING")
            => \E w \in BagToSet(workers) : w.pc = "run")
    /\ (scan_status = "SCANNING") ~> (scan_status # "SCANNING" \/ ~Alive)

\* SCANNING with two workers alive, one of which has yet to write
C24_Witness ==
    /\ Alive
    /\ scan_status = "SCANNING"
    /\ BagCardinality(workers) = 2

\* what one worker run on its own leaves in the three shared fields
SingleRuns ==
    {LET w == called(NewWorker, r)
     IN  <<status_of(w), text_of(w), conf_of(w)>> : r \in ResultsApp}

\* C25: when no worker is active, a RESULT is shown with UNDETECTED and ---
\* or with an upper-cased class name, an ERROR with SYS ERR or CRASH, and the
\* three fields are those of one worker run.
C25_OutcomeConsistent ==
    (Alive /\ workers = EmptyBag) =>
        /\ scan_status = "RESULT" =>
              \/ result_text = "UNDETECTED" /\ conf_text = "---"
              \/ result_text \in {"MSG", "SALT", "SUGAR"}
        /\ scan_status = "ERROR" => result_text \in {"SYS ERR", "CRASH"}
        /\ scan_status \in Terminal =>
              <<scan_status, result_text, conf_text>> \in SingleRuns

====
